---- MODULE Spec2Model ----
(***************************************************************************)
(* A model of build_blog.py: the line scanner markdown_to_html, the inline *)
(* formatter process_inline_formatting and the ad injector                 *)
(* insert_in_article_ads.  Text is modelled as TLA+ strings, character by  *)
(* character: the Python string methods and the regular expressions are    *)
(* operators that compute what the code computes.                          *)
(***************************************************************************)
EXTENDS Integers, Sequences, FiniteSets, TLC

(***************************************************************************)
(* Python string primitives                                                *)
(***************************************************************************)

\* The backquote character.  A TLA+ string cannot hold a backquote, so the
\* model writes it as the tilde, which occurs nowhere else in the texts.
BQ == "~"

\* s[j] of Python (1-based here) as a one-character string
CharAt(s, j) == SubSeq(s, j, j)

\* s.startswith(p)
StartsWith(s, p) == Len(s) >= Len(p) /\ SubSeq(s, 1, Len(p)) = p

\* s.endswith(p)
EndsWith(s, p) == Len(s) >= Len(p) /\ SubSeq(s, Len(s) - Len(p) + 1, Len(s)) = p

\* the characters str.strip() removes
IsSpace(c) == c \in {" ", "\t", "\r"}

\* s.strip(): drop leading and trailing whitespace
Strip(s) ==
  LET keep == {j \in 1..Len(s) : ~IsSpace(CharAt(s, j))}
  IN IF keep = {} THEN ""
     ELSE LET lo == CHOOSE j \in keep : \A k \in keep : j <= k
              hi == CHOOSE j \in keep : \A k \in keep : j >= k
          IN SubSeq(s, lo, hi)

\* s.find(p, from): least index >= from where p occurs in s, 0 if none
Find(s, p, from) ==
  LET last == Len(s) - Len(p) + 1
      hit(j) == SubSeq(s, j, j + Len(p) - 1) = p
  IN IF \E j \in from..last : hit(j)
     THEN CHOOSE j \in from..last : hit(j) /\ \A k \in from..(j - 1) : ~hit(k)
     ELSE 0

\* p in s
Contains(s, p) == Find(s, p, 1) # 0

\* sep.join(parts)
RECURSIVE Join(_, _)
Join(parts, sep) ==
  IF parts = <<>> THEN ""
  ELSE IF Len(parts) = 1 THEN parts[1]
  ELSE parts[1] \o sep \o Join(Tail(parts), sep)

\* s.split(sep) for a one-character separator
RECURSIVE Split(_, _)
Split(s, sep) ==
  LET j == Find(s, sep, 1)
  IN IF j = 0 THEN <<s>>
     ELSE <<SubSeq(s, 1, j - 1)>> \o Split(SubSeq(s, j + 1, Len(s)), sep)

\* len(re.findall(p, s)) for a literal pattern p
RECURSIVE CountOcc(_, _)
CountOcc(s, p) ==
  LET j == Find(s, p, 1)
  IN IF j = 0 THEN 0
     ELSE 1 + CountOcc(SubSeq(s, j + Len(p), Len(s)), p)

(***************************************************************************)
(* process_inline_formatting: four re.sub passes, in this order            *)
(***************************************************************************)

\* re.sub(r'\*\*(.*?)\*\*', r'<strong>\1</strong>', text)
RECURSIVE SubBold(_)
SubBold(text) ==
  LET a == Find(text, "**", 1)
      b == IF a = 0 THEN 0 ELSE Find(text, "**", a + 2)
  IN IF b = 0 THEN text
     ELSE SubSeq(text, 1, a - 1) \o "<strong>" \o SubSeq(text, a + 2, b - 1)
          \o "</strong>" \o SubBold(SubSeq(text, b + 2, Len(text)))

\* re.sub(r'\*(.*?)\*', r'<em>\1</em>', text)
RECURSIVE SubItalic(_)
SubItalic(text) ==
  LET a == Find(text, "*", 1)
      b == IF a = 0 THEN 0 ELSE Find(text, "*", a + 1)
  IN IF b = 0 THEN text
     ELSE SubSeq(text, 1, a - 1) \o "<em>" \o SubSeq(text, a + 1, b - 1)
          \o "</em>" \o SubItalic(SubSeq(text, b + 1, Len(text)))

\* re.sub(r'BQ([^BQ]+)BQ', r'<code>\1</code>', text), BQ the backquote
RECURSIVE SubCode(_)
SubCode(text) ==
  LET a == Find(text, BQ, 1)
      b == IF a = 0 THEN 0 ELSE Find(text, BQ, a + 1)
  IN IF b = 0 THEN text
     ELSE IF b = a + 1
          THEN SubSeq(text, 1, a) \o SubCode(SubSeq(text, a + 1, Len(text)))
          ELSE SubSeq(text, 1, a - 1) \o "<code>" \o SubSeq(text, a + 1, b - 1)
               \o "</code>" \o SubCode(SubSeq(text, b + 1, Len(text)))

\* re.sub(r'\[([^\]]+)\]\(([^)]+)\)', r'<a href="\2">\1</a>', text)
RECURSIVE SubLink(_)
SubLink(text) ==
  LET a == Find(text, "[", 1)
      b == IF a = 0 THEN 0 ELSE Find(text, "]", a + 1)
      c == IF b = 0 THEN 0 ELSE Find(text, ")", b + 2)
      ok == /\ b > a + 1
            /\ CharAt(text, b + 1) = "("
            /\ c > b + 2
  IN IF a = 0 THEN text
     ELSE IF b # 0 /\ b < Len(text) /\ c # 0 /\ ok
          THEN SubSeq(text, 1, a - 1) \o "<a href=\"" \o SubSeq(text, b + 2, c - 1)
               \o "\">" \o SubSeq(text, a + 1, b - 1) \o "</a>"
               \o SubLink(SubSeq(text, c + 1, Len(text)))
          ELSE SubSeq(text, 1, a) \o SubLink(SubSeq(text, a + 1, Len(text)))

process_inline_formatting(text) == SubLink(SubCode(SubItalic(SubBold(text))))

(***************************************************************************)
(* insert_in_article_ads                                                   *)
(***************************************************************************)

\* a slip in the ad code: its markup carries a paragraph
in_article_ad_WithParagraph ==
  "\n<div class=\"ad-container\">\n<p>Advertisement</p>\n</div>\n"

\* the in-article ad code, character for character
in_article_ad ==
  "\n<div class=\"ad-container\" style=\"margin: 30px 0; text-align: center;\">\n"
  \o "    <ins class=\"adsbygoogle\"\n"
  \o "         style=\"display:block; text-align:center;\"\n"
  \o "         data-ad-layout=\"in-article\"\n"
  \o "         data-ad-format=\"fluid\"\n"
  \o "         data-ad-client=\"ca-pub-6705222517983610\"\n"
  \o "         data-ad-slot=\"1879717900\"></ins>\n"
  \o "    <script>\n"
  \o "         (adsbygoogle = window.adsbygoogle || []).push({});\n"
  \o "    </script>\n"
  \o "</div>\n"

\* the leftmost match of  open .*? close  at or after from, as <<start, end>>
\* ('.' does not match a newline); <<0, 0>> if there is none
RECURSIVE LazyMatch(_, _, _, _)
LazyMatch(s, open, close, from) ==
  LET a == Find(s, open, from)
      b == IF a = 0 THEN 0 ELSE Find(s, close, a + Len(open))
      nl == IF a = 0 THEN 0 ELSE Find(s, "\n", a + Len(open))
  IN IF a = 0 \/ b = 0 THEN <<0, 0>>
     ELSE IF nl # 0 /\ nl < b THEN LazyMatch(s, open, close, a + 1)
     ELSE <<a, b + Len(close) - 1>>

\* a slip in the pattern: without the capturing group re.split drops the
\* matches and returns only the pieces between them
RECURSIVE ReSplit_NoCapture(_, _, _)
ReSplit_NoCapture(s, open, close) ==
  LET m == LazyMatch(s, open, close, 1)
  IN IF m[1] = 0 THEN <<s>>
     ELSE <<SubSeq(s, 1, m[1] - 1)>>
          \o ReSplit_NoCapture(SubSeq(s, m[2] + 1, Len(s)), open, close)

\* re.split('(' open '.*?' close ')', s): the pieces between the matches and
\* the matches themselves, alternating
RECURSIVE ReSplit(_, _, _)
ReSplit(s, open, close) ==
  LET m == LazyMatch(s, open, close, 1)
  IN IF m[1] = 0 THEN <<s>>
     ELSE <<SubSeq(s, 1, m[1] - 1), SubSeq(s, m[1], m[2])>>
          \o ReSplit(SubSeq(s, m[2] + 1, Len(s)), open, close)

\* a slip in the section test: the ad after the 2nd and the 3rd header
WantSectionAd_2and3(section_count) == section_count = 2 \/ section_count = 3

\* section_count == 2 or section_count == 4
WantSectionAd(section_count) == section_count = 2 \/ section_count = 4

\* p_count % 8 == 0
WantParagraphAd(p_count) == p_count % 8 = 0

\* the loop over sections: every section is kept, a section that starts with
\* <h2> is counted, and the ad follows the 2nd and the 4th counted one
RECURSIVE SectionLoop(_, _)
SectionLoop(sections, section_count) ==
  IF sections = <<>> THEN [text |-> "", count |-> section_count]
  ELSE LET section == sections[1]
           isH2 == StartsWith(section, "<h2>")
           c == IF isH2 THEN section_count + 1 ELSE section_count
           rest == SectionLoop(Tail(sections), c)
       IN [text |-> section
                    \o (IF isH2 /\ WantSectionAd(c) THEN in_article_ad ELSE "")
                    \o rest.text,
           count |-> rest.count]

\* the loop over paragraphs: every part is kept, a part that starts with <p>
\* is counted, and the ad follows every 8th counted one
RECURSIVE ParagraphLoop(_, _)
ParagraphLoop(paragraphs, p_count) ==
  IF paragraphs = <<>> THEN ""
  ELSE LET part == paragraphs[1]
           isP == StartsWith(part, "<p>")
           c == IF isP THEN p_count + 1 ELSE p_count
       IN part
          \o (IF isP /\ WantParagraphAd(c) THEN in_article_ad ELSE "")
          \o ParagraphLoop(Tail(paragraphs), c)

\* the header pass: final_content and section_count
HeaderPass(html_content) ==
  SectionLoop(ReSplit(html_content, "<h2>", "</h2>"), 0)

\* the paragraph pass over final_content
ParagraphPass(final_content) ==
  ParagraphLoop(ReSplit(final_content, "<p>", "</p>"), 0)

\* a slip in the threshold: 15 paragraphs already start the paragraph pass
NeedsParagraphPass_From15(paragraph_count, section_count) ==
  paragraph_count >= 15 /\ section_count < 3

\* paragraph_count > 15 and section_count < 3
NeedsParagraphPass(paragraph_count, section_count) ==
  paragraph_count > 15 /\ section_count < 3

\* a slip in the paragraph pass: it splits the input again, not final_content,
\* and so loses the ads of the header pass
insert_in_article_ads_FromInput(html_content) ==
  LET hp == HeaderPass(html_content)
      final_content == hp.text
      section_count == hp.count
      paragraph_count == CountOcc(final_content, "<p>")
  IN IF NeedsParagraphPass(paragraph_count, section_count)
     THEN ParagraphPass(html_content)
     ELSE final_content

insert_in_article_ads(html_content) ==
  LET hp == HeaderPass(html_content)
      final_content == hp.text
      section_count == hp.count
      paragraph_count == CountOcc(final_content, "<p>")
  IN IF NeedsParagraphPass(paragraph_count, section_count)
     THEN ParagraphPass(final_content)
     ELSE final_content

(***************************************************************************)
(* markdown_to_html: the line tests and the fragments                      *)
(***************************************************************************)

\* the fence marker, three backquotes
FENCE == BQ \o BQ \o BQ

\* a slip in the fence test: the line is not stripped first
IsFence_NoStrip(line) == StartsWith(line, FENCE)

\* line.strip().startswith(FENCE)
IsFence(line) == StartsWith(Strip(line), FENCE)

\* '|' in line and line.strip().startswith('|') and line.strip().endswith('|')
IsTableRow(line) ==
  /\ Contains(line, "|")
  /\ StartsWith(Strip(line), "|")
  /\ EndsWith(Strip(line), "|")

\* line.strip().startswith('- ') or line.strip().startswith('* ')
IsListItem(line) == StartsWith(Strip(line), "- ") \/ StartsWith(Strip(line), "* ")

\* line.startswith('### ') or line.startswith('## ') or line.startswith('# ')
IsHeader(line) ==
  StartsWith(line, "### ") \/ StartsWith(line, "## ") \/ StartsWith(line, "# ")

\* [cell.strip() for cell in line.strip().split('|')[1:-1]]
Cells(line) ==
  LET parts == Split(Strip(line), "|")
      inner == SubSeq(parts, 2, Len(parts) - 1)
  IN [k \in 1..Len(inner) |-> Strip(inner[k])]

\* a slip in the code block: the buffered text is inline-formatted
CodeBlockHTML_Formatted(content) ==
  "<pre><code>" \o process_inline_formatting(Join(content, "\n")) \o "</code></pre>"

\* the fragment of a closed code block
CodeBlockHTML(content) == "<pre><code>" \o Join(content, "\n") \o "</code></pre>"

\* one <th> or <td> fragment per cell of a row
CellsHTML(row, tag) ==
  [k \in 1..Len(row) |->
     "<" \o tag \o ">" \o process_inline_formatting(row[k]) \o "</" \o tag \o ">"]

\* the fragments of the rows of the body, each row between <tr> and </tr>
RECURSIVE RowsHTML(_)
RowsHTML(rows) ==
  IF rows = <<>> THEN <<>>
  ELSE <<"<tr>">> \o CellsHTML(rows[1], "td") \o <<"</tr>">> \o RowsHTML(Tail(rows))

\* a slip in the separator test: any() in place of all()
StartRow_Any(rows) ==
  IF Len(rows) > 1 /\ \E k \in 1..Len(rows[2]) : Contains(rows[2][k], "-")
  THEN 2 ELSE 1

\* 2 if len(table_rows) > 1 and all('-' in cell for cell in table_rows[1]) else 1
StartRow(rows) ==
  IF Len(rows) > 1 /\ \A k \in 1..Len(rows[2]) : Contains(rows[2][k], "-")
  THEN 2 ELSE 1

\* the fragments of a closed table
TableHTML(rows) ==
  IF rows = <<>> THEN <<>>
  ELSE LET start_row == StartRow(rows)
       IN <<"<table>">>
          \o <<"<thead><tr>">> \o CellsHTML(rows[1], "th") \o <<"</tr></thead>">>
          \o (IF Len(rows) > start_row
              THEN <<"<tbody>">> \o RowsHTML(SubSeq(rows, start_row + 1, Len(rows)))
                   \o <<"</tbody>">>
              ELSE <<>>)
          \o <<"</table>">>

\* a slip in the paragraph rule: the line is wrapped without being stripped
ParagraphHTML_NoStrip(line) == "<p>" \o process_inline_formatting(line) \o "</p>"

\* the fragment of a paragraph line
ParagraphHTML(line) == "<p>" \o process_inline_formatting(Strip(line)) \o "</p>"

\* a slip in the blank-line rule: a blank line closes the list and emits
\* nothing of its own
BlockRules_DropsBlank(line, inlist) ==
  IF StartsWith(line, "### ")
  THEN [frags |-> <<"<h3>" \o process_inline_formatting(SubSeq(line, 5, Len(line))) \o "</h3>">>,
        inlist |-> inlist]
  ELSE IF StartsWith(line, "## ")
  THEN [frags |-> <<"<h2>" \o process_inline_formatting(SubSeq(line, 4, Len(line))) \o "</h2>">>,
        inlist |-> inlist]
  ELSE IF StartsWith(line, "# ")
  THEN [frags |-> <<"<h1>" \o process_inline_formatting(SubSeq(line, 3, Len(line))) \o "</h1>">>,
        inlist |-> inlist]
  ELSE IF IsListItem(line)
  THEN [frags |-> (IF inlist THEN <<>> ELSE <<"<ul>">>)
                  \o <<"<li>"
                       \o process_inline_formatting(SubSeq(Strip(line), 3, Len(Strip(line))))
                       \o "</li>">>,
        inlist |-> TRUE]
  ELSE [frags |-> (IF inlist THEN <<"</ul>">> ELSE <<>>)
                  \o (IF Strip(line) = "" THEN <<>>
                      ELSE IF Strip(line) = "---" THEN <<"<hr>">>
                      ELSE IF ~StartsWith(Strip(line), "<")
                      THEN <<ParagraphHTML(line)>>
                      ELSE <<line>>),
        inlist |-> FALSE]

\* the 'if not in_table' block for one line: the fragments it appends and the
\* list mode it leaves
BlockRules(line, inlist) ==
  IF StartsWith(line, "### ")
  THEN [frags |-> <<"<h3>" \o process_inline_formatting(SubSeq(line, 5, Len(line))) \o "</h3>">>,
        inlist |-> inlist]
  ELSE IF StartsWith(line, "## ")
  THEN [frags |-> <<"<h2>" \o process_inline_formatting(SubSeq(line, 4, Len(line))) \o "</h2>">>,
        inlist |-> inlist]
  ELSE IF StartsWith(line, "# ")
  THEN [frags |-> <<"<h1>" \o process_inline_formatting(SubSeq(line, 3, Len(line))) \o "</h1>">>,
        inlist |-> inlist]
  ELSE IF IsListItem(line)
  THEN [frags |-> (IF inlist THEN <<>> ELSE <<"<ul>">>)
                  \o <<"<li>"
                       \o process_inline_formatting(SubSeq(Strip(line), 3, Len(Strip(line))))
                       \o "</li>">>,
        inlist |-> TRUE]
  ELSE [frags |-> (IF inlist THEN <<"</ul>">> ELSE <<>>)
                  \o (IF Strip(line) = "" THEN <<"">>
                      ELSE IF Strip(line) = "---" THEN <<"<hr>">>
                      ELSE IF ~StartsWith(Strip(line), "<")
                      THEN <<ParagraphHTML(line)>>
                      ELSE <<line>>),
        inlist |-> FALSE]

(***************************************************************************)
(* The documents and bodies the model runs on                              *)
(***************************************************************************)

\* bounds of the model
MaxInline == 5
MaxCalls == 3
MaxLines == 3
MaxCodeLines == 3
MaxRows == 3
MaxPlain == 17
MaxH == 5
MaxP == 24

\* the non-empty sequences over S of length at most n
SeqsUpTo(S, n) == UNION {[1..k -> S] : k \in 1..n}

\* one line of every kind the scanner tells apart
LineSet == {FENCE, "|a|", "|-|", "## a", "- a", "", "---", "a", "<b>", "</ul>"}

\* lines between two fences: plain, shaped like block or inline markup, an
\* indented fence, and a line of HTML
CodeLineSet == {"a", "|a|", "## a", "**a**", " " \o FENCE, "<h2>a</h2>"}

\* table rows: plain, all-hyphen, half-hyphen, and the row without cells
RowSet == {"|a|b|", "|-|-|", "|-|b|", "|"}

\* the k-th line of a plain document of the given pattern
PlainLine(pattern, k) ==
  IF pattern = 1 THEN "a"
  ELSE IF pattern = 2 THEN (IF k % 3 = 0 THEN "" ELSE "a")
  ELSE (IF k % 2 = 0 THEN " b " ELSE "a")

\* documents after split('\n'): at least one line, no newline inside a line
\* texts given to the inline formatter: every string of asterisks and letters
\* up to the bound, and texts where emphasis, code and link markup meet
StarTexts == {Join(q, "") : q \in SeqsUpTo({"*", "a"}, MaxInline)}
InlineTexts ==
  StarTexts \cup {"**a** *b*", "***a***", "**a*b** *c*", "*a **b** c*",
                  BQ \o "a" \o BQ, "[a](b)", BQ \o "[a](b)" \o BQ,
                  "**a" \o BQ \o "b** " \o BQ \o "c", "[**a**](b)", "[a](*b*)"}

\* documents main converts one after another: some end inside a list, a code
\* block or a table
CallDocs == {<<"a">>, <<"- a">>, <<FENCE, "a">>, <<"|a|">>, <<FENCE, "a", FENCE>>,
             <<"|a|", "a">>}

ShortDocs == SeqsUpTo(LineSet, MaxLines)
CodeDocs == {<<FENCE>> \o c \o <<FENCE>> : c \in SeqsUpTo(CodeLineSet, MaxCodeLines)}
TableDocs == {r \o <<"a">> : r \in SeqsUpTo(RowSet, MaxRows)}
PlainDocs == {[k \in 1..n |-> PlainLine(pattern, k)] : n \in 1..MaxPlain, pattern \in 1..3}
Documents == ShortDocs \cup CodeDocs \cup TableDocs \cup PlainDocs

\* the pieces of a body with nH headers and nP paragraphs: headers first,
\* paragraphs first (after a title and a blank line), or alternating
BodyPieces(nH, nP, layout) ==
  LET h2 == "<h2>a</h2>"
      p == "<p>a</p>"
      both == IF nH < nP THEN nH ELSE nP
  IN IF layout = 1 THEN [k \in 1..(nH + nP) |-> IF k <= nH THEN h2 ELSE p]
     ELSE IF layout = 2
     THEN <<"<h1>a</h1>", "">> \o [k \in 1..(nH + nP) |-> IF k <= nP THEN p ELSE h2]
     ELSE [k \in 1..(nH + nP) |->
             IF k <= 2 * both THEN (IF k % 2 = 1 THEN h2 ELSE p)
             ELSE IF nH > nP THEN h2 ELSE p]

\* bodies as the scanner assembles them: fragments joined by newlines
Bodies ==
  {Join(BodyPieces(nH, nP, layout), "\n") : nH \in 0..MaxH, nP \in 0..MaxP, layout \in 1..3}

(***************************************************************************)
(* State                                                                   *)
(***************************************************************************)

VARIABLES
  lines,               \* markdown_content.split('\n')
  i,                   \* index of the next line, 0-based as in the code
  in_list, in_code_block, in_table,
  code_block_content,  \* lines buffered since the opening fence
  table_rows,          \* rows buffered since the table opened, as cell lists
  result_lines,        \* the fragments emitted so far
  pc,                  \* "scan" inside the while loop, "done" after the return
  html,                \* the value markdown_to_html returns
  html_content,        \* the argument of a direct call of insert_in_article_ads
  ad_result,           \* the value that call returns
  ad_again,            \* the value of a second call, on ad_result
  ad_pc,               \* "call" before the first call, "done" after it, "again"
                       \* after the second, "idle" if there is none
  queue,               \* the documents main has still to convert, in order
  built_posts,         \* one <<document, html>> pair per finished conversion
  inline_text,         \* the argument of a direct call of process_inline_formatting
  text,                \* its local: the text after the passes applied so far
  inline_pc            \* the pass that call applies next; "idle" if none

vars == <<lines, i, in_list, in_code_block, in_table, code_block_content,
          table_rows, result_lines, pc, html, html_content, ad_result, ad_again,
          ad_pc, queue, built_posts, inline_text, text, inline_pc>>

adVars == <<html_content, ad_result, ad_again, ad_pc>>
callVars == <<queue, built_posts>>
inlineVars == <<inline_text, text, inline_pc>>
mdVars == <<lines, i, in_list, in_code_block, in_table, code_block_content,
            table_rows, result_lines, pc, html>>

\* the line the loop body reads
line == lines[i + 1]

(***************************************************************************)
(* markdown_to_html: one action per path through the loop body             *)
(***************************************************************************)

Init ==
  /\ lines \in Documents
  /\ i = 0
  /\ in_list = FALSE
  /\ in_code_block = FALSE
  /\ in_table = FALSE
  /\ code_block_content = <<>>
  /\ table_rows = <<>>
  /\ result_lines = <<>>
  /\ pc = "scan"
  /\ html = ""
  /\ html_content = ""
  /\ ad_result = ""
  /\ ad_again = ""
  /\ ad_pc = "idle"
  /\ queue = <<>>
  /\ built_posts = <<>>
  /\ inline_text = ""
  /\ text = ""
  /\ inline_pc = "idle"

\* a fence line outside a code block: start buffering
OpenCodeBlock ==
  /\ pc = "scan" /\ i < Len(lines)
  /\ IsFence(line) /\ ~in_code_block
  /\ in_code_block' = TRUE
  /\ code_block_content' = <<>>
  /\ i' = i + 1
  /\ UNCHANGED <<lines, in_list, in_table, table_rows, result_lines, pc, html>>
  /\ UNCHANGED <<adVars, callVars, inlineVars>>

\* a fence line inside a code block: emit the block
CloseCodeBlock ==
  /\ pc = "scan" /\ i < Len(lines)
  /\ IsFence(line) /\ in_code_block
  /\ in_code_block' = FALSE
  /\ result_lines' = Append(result_lines, CodeBlockHTML(code_block_content))
  /\ i' = i + 1
  /\ UNCHANGED <<lines, in_list, in_table, code_block_content, table_rows, pc, html>>
  /\ UNCHANGED <<adVars, callVars, inlineVars>>

\* any other line inside a code block: buffer it
BufferCodeLine ==
  /\ pc = "scan" /\ i < Len(lines)
  /\ ~IsFence(line) /\ in_code_block
  /\ code_block_content' = Append(code_block_content, line)
  /\ i' = i + 1
  /\ UNCHANGED <<lines, in_list, in_code_block, in_table, table_rows, result_lines, pc, html>>
  /\ UNCHANGED <<adVars, callVars, inlineVars>>

\* a table row outside a code block: buffer its cells
TableRow ==
  /\ pc = "scan" /\ i < Len(lines)
  /\ ~IsFence(line) /\ ~in_code_block
  /\ IsTableRow(line)
  /\ in_table' = TRUE
  /\ table_rows' = Append(IF in_table THEN table_rows ELSE <<>>, Cells(line))
  /\ i' = i + 1
  /\ UNCHANGED <<lines, in_list, in_code_block, code_block_content, result_lines, pc, html>>
  /\ UNCHANGED <<adVars, callVars, inlineVars>>

\* a slip in the table-closing branch: the iteration that closes the table
\* ends without advancing, and the line is processed again by the next one
BlockLine_NoAdvance ==
  /\ pc = "scan" /\ i < Len(lines)
  /\ ~IsFence(line) /\ ~in_code_block
  /\ ~IsTableRow(line)
  /\ LET r == BlockRules(line, in_list)
     IN IF in_table
        THEN /\ result_lines' = result_lines \o TableHTML(table_rows)
             /\ in_list' = in_list
             /\ i' = i
        ELSE /\ result_lines' = result_lines \o r.frags
             /\ in_list' = r.inlist
             /\ i' = i + 1
  /\ in_table' = FALSE
  /\ UNCHANGED <<lines, in_code_block, code_block_content, table_rows, pc, html>>
  /\ UNCHANGED <<adVars, callVars, inlineVars>>

\* a slip in the table-closing branch: it ends the iteration, so the line
\* that closes a table emits nothing of its own
BlockLine_ConsumesCloser ==
  /\ pc = "scan" /\ i < Len(lines)
  /\ ~IsFence(line) /\ ~in_code_block
  /\ ~IsTableRow(line)
  /\ LET r == BlockRules(line, in_list)
     IN IF in_table
        THEN result_lines' = result_lines \o TableHTML(table_rows) /\ in_list' = in_list
        ELSE result_lines' = result_lines \o r.frags /\ in_list' = r.inlist
  /\ in_table' = FALSE
  /\ i' = i + 1
  /\ UNCHANGED <<lines, in_code_block, code_block_content, table_rows, pc, html>>
  /\ UNCHANGED <<adVars, callVars, inlineVars>>

\* any other line outside a code block: close the open table, then the
\* header, list, blank, rule, paragraph and pass-through rules
BlockLine ==
  /\ pc = "scan" /\ i < Len(lines)
  /\ ~IsFence(line) /\ ~in_code_block
  /\ ~IsTableRow(line)
  /\ LET closed == IF in_table THEN TableHTML(table_rows) ELSE <<>>
         r == BlockRules(line, in_list)
     IN /\ result_lines' = result_lines \o closed \o r.frags
        /\ in_list' = r.inlist
  /\ in_table' = FALSE
  /\ i' = i + 1
  /\ UNCHANGED <<lines, in_code_block, code_block_content, table_rows, pc, html>>
  /\ UNCHANGED <<adVars, callVars, inlineVars>>

\* a slip at the end of input: an open list is not closed
Finish_NoClose ==
  /\ pc = "scan" /\ i = Len(lines)
  /\ result_lines' = result_lines
  /\ html' = insert_in_article_ads(Join(result_lines', "\n"))
  /\ pc' = "done"
  /\ UNCHANGED <<lines, i, in_list, in_code_block, in_table, code_block_content, table_rows>>
  /\ UNCHANGED <<adVars, callVars, inlineVars>>

\* after the loop: close the list, join the fragments, insert the ads, return
Finish ==
  /\ pc = "scan" /\ i = Len(lines)
  /\ result_lines' = IF in_list THEN Append(result_lines, "</ul>") ELSE result_lines
  /\ html' = insert_in_article_ads(Join(result_lines', "\n"))
  /\ pc' = "done"
  /\ UNCHANGED <<lines, i, in_list, in_code_block, in_table, code_block_content, table_rows>>
  /\ UNCHANGED <<adVars, callVars, inlineVars>>

Next ==
  \/ OpenCodeBlock
  \/ CloseCodeBlock
  \/ BufferCodeLine
  \/ TableRow
  \/ BlockLine
  \/ Finish

Spec == Init /\ [][Next]_vars

\* the interpreter keeps running the loop: a step that can be taken is taken.
\* This is WF_vars(Next) written out: a step of Next is possible exactly when
\* pc = "scan" (a line is left and one of the scan actions takes it, or none is
\* left and Finish returns), so weak fairness of Next says that infinitely
\* often the loop is not running or a step of Next is taken.
SpecFair == Spec /\ (([]<>(pc # "scan")) \/ []<><<Next>>_vars)

(***************************************************************************)
(* insert_in_article_ads called on a body of its own                       *)
(***************************************************************************)

InitAds ==
  /\ lines = <<"">>
  /\ i = 0
  /\ in_list = FALSE
  /\ in_code_block = FALSE
  /\ in_table = FALSE
  /\ code_block_content = <<>>
  /\ table_rows = <<>>
  /\ result_lines = <<>>
  /\ pc = "idle"
  /\ html = ""
  /\ html_content \in Bodies
  /\ ad_result = ""
  /\ ad_again = ""
  /\ ad_pc = "call"
  /\ queue = <<>>
  /\ built_posts = <<>>
  /\ inline_text = ""
  /\ text = ""
  /\ inline_pc = "idle"

InjectAds ==
  /\ ad_pc = "call"
  /\ ad_result' = insert_in_article_ads(html_content)
  /\ ad_pc' = "done"
  /\ UNCHANGED <<html_content, ad_again>>
  /\ UNCHANGED <<mdVars, callVars, inlineVars>>

\* the injector run once more, on its own output
InjectAdsAgain ==
  /\ ad_pc = "done"
  /\ ad_again' = insert_in_article_ads(ad_result)
  /\ ad_pc' = "again"
  /\ UNCHANGED <<html_content, ad_result>>
  /\ UNCHANGED <<mdVars, callVars, inlineVars>>

NextAds == InjectAds \/ InjectAdsAgain

SpecAds == InitAds /\ [][NextAds]_vars

(***************************************************************************)
(* process_inline_formatting, pass by pass                                 *)
(***************************************************************************)

\* a direct call of process_inline_formatting, before its first pass
InitInline ==
  /\ inline_text \in InlineTexts
  /\ text = inline_text
  /\ inline_pc = "bold"
  /\ pc = "idle"
  /\ lines = <<"">>
  /\ i = 0
  /\ in_list = FALSE
  /\ in_code_block = FALSE
  /\ in_table = FALSE
  /\ code_block_content = <<>>
  /\ table_rows = <<>>
  /\ result_lines = <<>>
  /\ html = ""
  /\ html_content = ""
  /\ ad_result = ""
  /\ ad_again = ""
  /\ ad_pc = "idle"
  /\ queue = <<>>
  /\ built_posts = <<>>

BoldPass ==
  /\ inline_pc = "bold"
  /\ text' = SubBold(text)
  /\ inline_pc' = "italic"
  /\ UNCHANGED <<inline_text, mdVars, adVars, callVars>>

ItalicPass ==
  /\ inline_pc = "italic"
  /\ text' = SubItalic(text)
  /\ inline_pc' = "code"
  /\ UNCHANGED <<inline_text, mdVars, adVars, callVars>>

CodePass ==
  /\ inline_pc = "code"
  /\ text' = SubCode(text)
  /\ inline_pc' = "link"
  /\ UNCHANGED <<inline_text, mdVars, adVars, callVars>>

LinkPass ==
  /\ inline_pc = "link"
  /\ text' = SubLink(text)
  /\ inline_pc' = "done"
  /\ UNCHANGED <<inline_text, mdVars, adVars, callVars>>

NextInline == BoldPass \/ ItalicPass \/ CodePass \/ LinkPass

SpecInline == InitInline /\ [][NextInline]_vars

(***************************************************************************)
(* main: one conversion after another                                      *)
(***************************************************************************)

\* main has a list of documents to convert and no conversion has run yet
InitCalls ==
  /\ queue \in SeqsUpTo(CallDocs, MaxCalls) \ {<<>>}
  /\ built_posts = <<>>
  /\ pc = "main"
  /\ lines = <<"">>
  /\ i = 0
  /\ in_list = FALSE
  /\ in_code_block = FALSE
  /\ in_table = FALSE
  /\ code_block_content = <<>>
  /\ table_rows = <<>>
  /\ result_lines = <<>>
  /\ html = ""
  /\ html_content = ""
  /\ ad_result = ""
  /\ ad_again = ""
  /\ ad_pc = "idle"
  /\ inline_text = ""
  /\ text = ""
  /\ inline_pc = "idle"

\* a slip in the prologue: the flags and buffers are module-level and keep
\* the values the previous call left in them
StartCall_KeepsState ==
  /\ pc = "main" /\ queue # <<>>
  /\ lines' = Head(queue)
  /\ queue' = Tail(queue)
  /\ result_lines' = <<>>
  /\ i' = 0
  /\ html' = ""
  /\ pc' = "scan"
  /\ UNCHANGED <<in_list, in_code_block, in_table, code_block_content, table_rows>>
  /\ UNCHANGED <<built_posts, adVars, inlineVars>>

\* main calls markdown_to_html for the next document: the prologue creates
\* the locals of the call
StartCall ==
  /\ pc = "main" /\ queue # <<>>
  /\ lines' = Head(queue)
  /\ queue' = Tail(queue)
  /\ result_lines' = <<>>
  /\ in_list' = FALSE
  /\ in_code_block' = FALSE
  /\ in_table' = FALSE
  /\ code_block_content' = <<>>
  /\ table_rows' = <<>>
  /\ i' = 0
  /\ html' = ""
  /\ pc' = "scan"
  /\ UNCHANGED <<built_posts, adVars, inlineVars>>

\* the call returns and main records the post
ReturnCall ==
  /\ pc = "done" /\ ad_pc = "idle" /\ inline_pc = "idle"
  /\ built_posts' = Append(built_posts, <<lines, html>>)
  /\ pc' = "main"
  /\ UNCHANGED <<lines, i, in_list, in_code_block, in_table, code_block_content,
                 table_rows, result_lines, html, queue>>
  /\ UNCHANGED <<adVars, inlineVars>>

NextCalls == StartCall \/ Next \/ ReturnCall

SpecCalls == InitCalls /\ [][NextCalls]_vars

(***************************************************************************)
(* Properties of the scanner                                               *)
(***************************************************************************)

\* the loop is about to process a line
AtLine == pc = "scan" /\ i < Len(lines)

\* s begins with the sequence t
IsPrefixOf(t, s) == Len(t) <= Len(s) /\ SubSeq(s, 1, Len(t)) = t

\* the fragments the step appends to result_lines
Emitted == SubSeq(result_lines', Len(result_lines) + 1, Len(result_lines'))

\* C1: whenever list mode is open and the line processed is not a list item
\* (a header, a fence, a table row, a blank line, a rule, a paragraph or a
\* pass-through line), the step emits the closing </ul> before anything else
\* and leaves list mode off.
C1_NonItemClosesList ==
  [][(AtLine /\ in_list /\ ~IsListItem(line))
       => /\ in_list' = FALSE
          /\ IsPrefixOf(<<"</ul>">>, Emitted)]_vars

\* C2: in table mode, the first line that is not a table row, a fence line
\* included, emits the whole table of the buffered rows before anything else
\* and leaves table mode off.
C2_NonRowClosesTable ==
  [][(AtLine /\ in_table /\ ~in_code_block /\ ~IsTableRow(line))
       => /\ in_table' = FALSE
          /\ IsPrefixOf(TableHTML(table_rows), Emitted)]_vars

\* C3: if the input ends inside a code block or a table, the buffered code
\* lines or table rows appear in the returned HTML in their closed form.
C3_NothingDroppedAtEnd ==
  pc = "done" =>
    /\ (in_code_block /\ code_block_content # <<>>)
         => Contains(html, CodeBlockHTML(code_block_content))
    /\ in_table => Contains(html, Join(TableHTML(table_rows), "\n"))

\* C4: after any prefix of any document at most one of in_code_block,
\* in_table and in_list is true.
C4_ModesExclusive ==
  /\ ~(in_code_block /\ in_table)
  /\ ~(in_code_block /\ in_list)
  /\ ~(in_table /\ in_list)

\* a line without block marker and without inline markup
NoMarkup(l) ==
  /\ ~IsFence(l) /\ ~IsTableRow(l) /\ ~IsHeader(l) /\ ~IsListItem(l)
  /\ Strip(l) # "---"
  /\ ~StartsWith(Strip(l), "<")
  /\ ~Contains(l, "*") /\ ~Contains(l, BQ) /\ ~Contains(l, "[")

\* the lines of the document that are not blank
NonBlank == {k \in 1..Len(lines) : Strip(lines[k]) # ""}

\* C7 as stated: for a document of any length without block markers and
\* inline markup, the returned string is the lines, each wrapped in <p></p>
\* and the blank ones empty, joined by newlines, and nothing else.
C7_PlainLinesWrapped ==
  (pc = "done" /\ \A k \in 1..Len(lines) : NoMarkup(lines[k])) =>
    html = Join([k \in 1..Len(lines) |->
                   IF k \in NonBlank THEN "<p>" \o lines[k] \o "</p>" ELSE ""], "\n")

\* C7 amended: for a document of at most 15 non-blank lines, without block
\* markers, inline markup and '<', the returned string is the lines, each
\* stripped of surrounding whitespace and wrapped in <p></p> and the blank
\* ones empty, joined by newlines, and nothing else.
C7_ShortPlainLinesStrippedWrapped ==
  (/\ pc = "done"
   /\ \A k \in 1..Len(lines) : NoMarkup(lines[k]) /\ ~Contains(lines[k], "<")
   /\ Cardinality(NonBlank) <= 15) =>
    html = Join([k \in 1..Len(lines) |->
                   IF k \in NonBlank THEN "<p>" \o Strip(lines[k]) \o "</p>" ELSE ""], "\n")

\* C7 witness: a converted plain document of exactly 15 non-blank lines, with
\* a blank line and a line that has whitespace around it
C7_Witness ==
  /\ pc = "done"
  /\ \A k \in 1..Len(lines) : NoMarkup(lines[k]) /\ ~Contains(lines[k], "<")
  /\ Cardinality(NonBlank) = 15
  /\ \E k \in 1..Len(lines) : lines[k] # Strip(lines[k]) \/ lines[k] = ""
  /\ html # ""

\* the lines between the opening fence and the line being processed
EnclosedLines ==
  LET open == CHOOSE j \in 1..i :
                /\ IsFence(lines[j])
                /\ \A k \in (j + 1)..i : ~IsFence(lines[k])
  IN SubSeq(lines, open + 1, i)

\* C8: inside a code block a line that is not a fence is buffered verbatim and
\* changes neither the fragments nor the table and list state, whatever its
\* shape; the closing fence emits exactly one fragment, <pre><code> + the
\* enclosed lines joined by newline + </code></pre>.
C8_CodeBlockVerbatim ==
  [][(AtLine /\ in_code_block) =>
       IF StartsWith(Strip(line), FENCE)
       THEN /\ Emitted = <<"<pre><code>" \o Join(EnclosedLines, "\n") \o "</code></pre>">>
            /\ UNCHANGED <<in_table, in_list, table_rows>>
       ELSE /\ code_block_content' = Append(code_block_content, line)
            /\ in_code_block'
            /\ UNCHANGED <<result_lines, in_table, in_list, table_rows>>]_vars

\* C8 witness: a block with a table-shaped, a header-shaped and a bold line
\* was closed and emitted verbatim
C8_Witness ==
  \E k \in 1..Len(result_lines) :
    result_lines[k] = "<pre><code>|a|\n## a\n**a**</code></pre>"

\* the rows of a sequence of rows, one after the other, as fragments
RECURSIVE BodyFragments(_)
BodyFragments(rows) ==
  IF rows = <<>> THEN <<>>
  ELSE <<"<tr>">>
       \o [k \in 1..Len(rows[1]) |-> "<td>" \o process_inline_formatting(rows[1][k]) \o "</td>"]
       \o <<"</tr>">> \o BodyFragments(Tail(rows))

\* the table the claim describes for the buffered rows r1..rn
ClaimedTable(rows) ==
  LET n == Len(rows)
      separator == n >= 2 /\ \A k \in 1..Len(rows[2]) : Contains(rows[2][k], "-")
      body == IF separator THEN SubSeq(rows, 3, n) ELSE SubSeq(rows, 2, n)
  IN <<"<table>", "<thead><tr>">>
     \o [k \in 1..Len(rows[1]) |-> "<th>" \o process_inline_formatting(rows[1][k]) \o "</th>"]
     \o <<"</tr></thead>">>
     \o (IF body # <<>> THEN <<"<tbody>">> \o BodyFragments(body) \o <<"</tbody>">> ELSE <<>>)
     \o <<"</table>">>

\* C9: the step that closes a table of rows r1..rn emits a <thead> of r1 only
\* and a <tbody> of r3..rn if n >= 2 and every cell of r2 contains a hyphen,
\* of r2..rn otherwise; the <tbody> only if a body row remains.
C9_TableShape ==
  [][(AtLine /\ in_table /\ ~in_table')
       => IsPrefixOf(ClaimedTable(table_rows), Emitted)]_vars

\* C9 witness: a three-row table with an all-hyphen second row was closed
C9_Witness ==
  /\ ~in_table
  /\ table_rows = <<<<"a", "b">>, <<"-", "-">>, <<"a", "b">>>>
  /\ \E k \in 1..Len(result_lines) : result_lines[k] = "</table>"

\* a line in pipe-table row form
IsPipeRow(l) == StartsWith(Strip(l), "|") /\ EndsWith(Strip(l), "|")

\* line k of the output lines out lies inside a <pre><code> ... </code></pre>
\* fragment
InCodeFragment(out, k) ==
  \E a \in 1..k :
    /\ StartsWith(out[a], "<pre><code>")
    /\ \A b \in a..(k - 1) : ~EndsWith(out[b], "</code></pre>")

\* C10 as stated: no line of the output starts with three backquotes and no
\* line of the output is in pipe-table row form.
C10_NoUnresolvedMarkup ==
  pc = "done" =>
    LET out == Split(html, "\n")
    IN \A k \in 1..Len(out) :
         ~StartsWith(Strip(out[k]), FENCE) /\ ~IsPipeRow(out[k])

\* C10 amended: no line of the output starts with three backquotes, and a
\* line of the output in pipe-table row form lies inside a <pre><code>
\* fragment, where the lines of a fenced block are kept verbatim.
C10_NoUnresolvedMarkupOutsideCode ==
  pc = "done" =>
    LET out == Split(html, "\n")
    IN \A k \in 1..Len(out) :
         /\ ~StartsWith(Strip(out[k]), FENCE)
         /\ IsPipeRow(out[k]) => InCodeFragment(out, k)

\* C10 witness: a document with a fenced block was converted, and its output
\* has a pipe row inside the code fragment
C10_Witness ==
  /\ pc = "done"
  /\ \E k \in 1..Len(lines) : IsFence(lines[k])
  /\ LET out == Split(html, "\n")
     IN \E k \in 1..Len(out) : IsPipeRow(out[k]) /\ InCodeFragment(out, k)

(***************************************************************************)
(* Properties of the ad injector                                           *)
(***************************************************************************)

\* the number of places where p occurs in s
Occurrences(s, p) ==
  Cardinality({j \in 1..(Len(s) - Len(p) + 1) : SubSeq(s, j, j + Len(p) - 1) = p})

\* the places of s where an ad fragment begins
AdSites(s) ==
  {j \in 1..(Len(s) - Len(in_article_ad) + 1) :
     /\ SubSeq(s, j, j + 4) = "\n<div"
     /\ SubSeq(s, j, j + Len(in_article_ad) - 1) = in_article_ad}

\* the text of s in front of place j
Before(s, j) == SubSeq(s, 1, j - 1)

\* the h2 count and the paragraph count of the body handed to the injector
BodyH2 == Occurrences(html_content, "<h2>")
BodyP == Occurrences(html_content, "<p>")

\* C5: when the paragraph pass does not trigger (at most 15 paragraphs, or 3
\* or more headers), the output has one ad right after the 2nd <h2> header if
\* there is one, one right after the 4th if there is one, and no other ad.
C5_HeaderAds ==
  (ad_pc = "done" /\ (BodyP <= 15 \/ BodyH2 >= 3)) =>
    LET sites == AdSites(ad_result)
    IN /\ \A j \in sites : EndsWith(Before(ad_result, j), "</h2>")
       /\ {Occurrences(Before(ad_result, j), "<h2>") : j \in sites} = {2, 4} \cap (1..BodyH2)
       /\ Cardinality(sites) = Cardinality({2, 4} \cap (1..BodyH2))

\* C5 witness: a body of 5 headers and fewer than 16 paragraphs came out with
\* exactly two ads
C5_Witness ==
  /\ ad_pc = "done"
  /\ BodyH2 = 5 /\ BodyP > 0 /\ BodyP < 16
  /\ Cardinality(AdSites(ad_result)) = 2

\* C6: the paragraph pass runs exactly when there are more than 15 paragraphs
\* and fewer than 3 headers; then an ad follows the 8th, 16th, 24th, ...
\* paragraph, counting paragraphs only, and no other paragraph; otherwise no
\* ad follows a paragraph.
C6_ParagraphAds ==
  ad_pc = "done" =>
    LET afterP == {j \in AdSites(ad_result) : EndsWith(Before(ad_result, j), "</p>")}
        counts == {Occurrences(Before(ad_result, j), "<p>") : j \in afterP}
    IN IF BodyP > 15 /\ BodyH2 < 3
       THEN /\ counts = {8 * k : k \in 1..(BodyP \div 8)}
            /\ Cardinality(afterP) = BodyP \div 8
       ELSE afterP = {}

\* C6 witness: a body of no header and 24 paragraphs came out with three ads
C6_Witness ==
  /\ ad_pc = "done"
  /\ BodyH2 = 0 /\ BodyP = 24
  /\ Cardinality(AdSites(ad_result)) = 3

\* the headers and paragraphs in front of an ad site of s
SiteKey(s, j) ==
  <<Occurrences(Before(s, j), "<h2>"), Occurrences(Before(s, j), "<p>")>>

\* C11: the injector run on its own output: the ad fragment is matched
\* neither as a header nor as a paragraph, so the second run counts the same
\* headers and paragraphs as the first and adds what a fresh count dictates,
\* one ad at each place where the first run put one, and none elsewhere.
C11_RerunCountsTheSame ==
  ad_pc = "again" =>
    LET first == AdSites(ad_result)
        second == AdSites(ad_again)
    IN /\ Occurrences(ad_result, "<h2>") = BodyH2
       /\ Occurrences(ad_result, "<p>") = BodyP
       /\ Occurrences(ad_again, "<h2>") = BodyH2
       /\ Occurrences(ad_again, "<p>") = BodyP
       /\ {SiteKey(ad_again, j) : j \in second} = {SiteKey(ad_result, j) : j \in first}
       /\ \A k \in first :
            Cardinality({j \in second : SiteKey(ad_again, j) = SiteKey(ad_result, k)}) = 2

\* C11 witness: a body of 2 headers and 16 paragraphs, 3 ads after the first
\* run, 6 after the second
C11_Witness ==
  /\ ad_pc = "again"
  /\ BodyH2 = 2 /\ BodyP = 16
  /\ Cardinality(AdSites(ad_result)) = 3
  /\ Cardinality(AdSites(ad_again)) = 6

\* C12: the line that closes a table is not consumed by the closing: the same
\* step emits, right after </table>, the fragments the header, list, blank,
\* rule, paragraph and pass-through rules give for that line under the
\* current list mode.
C12_CloserNotConsumed ==
  [][(AtLine /\ in_table /\ ~in_table') =>
       /\ i' = i + 1
       /\ \E t \in 1..(Len(Emitted) - 1) :
            /\ Emitted[1] = "<table>"
            /\ Emitted[t] = "</table>"
            /\ \A u \in 1..(t - 1) : Emitted[u] # "</table>"
            /\ SubSeq(Emitted, t + 1, Len(Emitted)) = BlockRules(line, in_list).frags]_vars

\* C12 witness: a paragraph line closed a table and its <p> follows </table>
C12_Witness ==
  \E k \in 1..(Len(result_lines) - 1) :
    result_lines[k] = "</table>" /\ result_lines[k + 1] = "<p>a</p>"

\* the number of fragments equal to tag among the first k fragments
TagCount(frags, tag, k) == Cardinality({j \in 1..k : frags[j] = tag})

\* how many elements opened by open are not yet closed after k fragments
Depth(frags, open, close, k) == TagCount(frags, open, k) - TagCount(frags, close, k)

\* open and close fragments alternate, starting with open and ending closed
Alternate(frags, open, close) ==
  /\ \A k \in 1..Len(frags) : Depth(frags, open, close, k) \in {0, 1}
  /\ Depth(frags, open, close, Len(frags)) = 0

\* list, table and code-block markup of a fragment sequence is consistent
ConsistentTags(frags) ==
  /\ Alternate(frags, "<ul>", "</ul>")
  /\ \A k \in 1..Len(frags) :
       StartsWith(frags[k], "<li>") => Depth(frags, "<ul>", "</ul>", k) = 1
  /\ Alternate(frags, "<table>", "</table>")
  /\ \A k \in 1..Len(frags) :
       StartsWith(frags[k], "<pre><code>") <=> EndsWith(frags[k], "</code></pre>")

\* a line the pass-through rule would emit as a list, table or code-block tag
IsRawTagLine(l) ==
  \/ l \in {"<ul>", "</ul>", "<table>", "</table>"}
  \/ StartsWith(l, "<li>")
  \/ StartsWith(l, "<pre><code>")
  \/ EndsWith(l, "</code></pre>")

\* C13 as stated: in the output of every conversion <ul> and </ul> alternate,
\* every <li> lies inside a list, and table and code-block markup is complete.
C13_ConsistentTags == pc = "done" => ConsistentTags(result_lines)

\* C13 amended: the same, for every document that has no raw HTML line which
\* is itself a list, table or code-block tag (such a line passes through
\* unchanged), including documents that end inside a code block, table or list.
C13_ConsistentGeneratedTags ==
  (pc = "done" /\ \A k \in 1..Len(lines) : ~IsRawTagLine(lines[k]))
    => ConsistentTags(result_lines)

\* C13 witness: a document of generated markup only whose list was still open
\* at the end of input and was closed by the final step
C13_Witness ==
  /\ pc = "done" /\ in_list
  /\ \A k \in 1..Len(lines) : ~IsRawTagLine(lines[k])
  /\ IsListItem(lines[Len(lines)])
  /\ result_lines[Len(result_lines)] = "</ul>"

\* f has the form of the fragment a block rule emits for the line l itself
IsOwnFragment(l, f) ==
  \/ \E h \in {"h1", "h2", "h3"} :
       StartsWith(f, "<" \o h \o ">") /\ EndsWith(f, "</" \o h \o ">")
  \/ StartsWith(f, "<li>") /\ EndsWith(f, "</li>")
  \/ f = ""
  \/ f = "<hr>"
  \/ StartsWith(f, "<p>") /\ EndsWith(f, "</p>")
  \/ f = l

\* frags is empty or the fragments of one closed table
AtMostOneTable(frags) ==
  \/ frags = <<>>
  \/ /\ frags[1] = "<table>" /\ frags[Len(frags)] = "</table>"
     /\ TagCount(frags, "<table>", Len(frags)) = 1
     /\ TagCount(frags, "</table>", Len(frags)) = 1

\* C16: every line processed outside code-block mode that is neither a fence
\* nor a table row emits exactly one fragment for itself, after at most one
\* closed table and at most one <ul> or </ul> wrapper.
C16_NoLineDropped ==
  [][(AtLine /\ ~in_code_block /\ ~IsFence(line) /\ ~IsTableRow(line)) =>
       /\ Len(Emitted) >= 1
       /\ IsOwnFragment(line, Emitted[Len(Emitted)])
       /\ LET before == SubSeq(Emitted, 1, Len(Emitted) - 1)
              wrapped == before # <<>> /\ before[Len(before)] \in {"<ul>", "</ul>"}
              table == IF wrapped THEN SubSeq(before, 1, Len(before) - 1) ELSE before
          IN AtMostOneTable(table)]_vars

\* C16 witness: a paragraph line that closed a table and a list
C16_Witness ==
  \E k \in 1..(Len(result_lines) - 2) :
    /\ result_lines[k] = "</table>"
    /\ result_lines[k + 1] = "</ul>"
    /\ result_lines[k + 2] = "<p>a</p>"

\* C17: with H headers and P paragraphs in the body, the output has
\* (1 if H >= 2) + (1 if H >= 4) + (P div 8 if P > 15 and H < 3) ads; with
\* H = 2 and P > 15 the ad right after the 2nd header is kept next to the
\* ads after every 8th paragraph.
C17_TotalAds ==
  ad_pc = "done" =>
    LET sites == AdSites(ad_result)
        afterH == {j \in sites : EndsWith(Before(ad_result, j), "</h2>")}
        afterP == {j \in sites : EndsWith(Before(ad_result, j), "</p>")}
    IN /\ Cardinality(sites) =
            (IF BodyH2 >= 2 THEN 1 ELSE 0) + (IF BodyH2 >= 4 THEN 1 ELSE 0)
            + (IF BodyP > 15 /\ BodyH2 < 3 THEN BodyP \div 8 ELSE 0)
       /\ (BodyH2 = 2 /\ BodyP > 15) =>
            /\ {Occurrences(Before(ad_result, j), "<h2>") : j \in afterH} = {2}
            /\ Cardinality(afterH) = 1
            /\ {Occurrences(Before(ad_result, j), "<p>") : j \in afterP}
                 = {8 * k : k \in 1..(BodyP \div 8)}
            /\ Cardinality(afterP) = BodyP \div 8

\* C17 witness: a body of 2 headers and 17 paragraphs came out with the header
\* ad and two paragraph ads
C17_Witness ==
  /\ ad_pc = "done"
  /\ BodyH2 = 2 /\ BodyP = 17
  /\ Cardinality(AdSites(ad_result)) = 3
  /\ \E j \in AdSites(ad_result) : EndsWith(Before(ad_result, j), "</h2>")

\* s with every ad fragment deleted
RECURSIVE WithoutAds(_)
WithoutAds(s) ==
  LET sites == AdSites(s)
  IN IF sites = {} THEN s
     ELSE LET j == CHOOSE k \in sites : \A m \in sites : k <= m
          IN Before(s, j) \o WithoutAds(SubSeq(s, j + Len(in_article_ad), Len(s)))

\* C18: the injector only inserts: its output with the ad fragments deleted
\* is the input body, so every piece of the body is kept once and in order.
C18_OnlyInserts == ad_pc = "done" => WithoutAds(ad_result) = html_content

\* C18 witness: a body of one header and 24 paragraphs got three ads and is
\* otherwise unchanged
C18_Witness ==
  /\ ad_pc = "done"
  /\ BodyH2 = 1 /\ BodyP = 24
  /\ ad_result # html_content
  /\ Cardinality(AdSites(ad_result)) = 3
  /\ WithoutAds(ad_result) = html_content

\* C19: in the output of markdown_to_html no ad fragment stands between the
\* <pre><code> and the </code></pre> of a code-block fragment: in front of
\* every ad as many code blocks were closed as were opened.
C19_NoAdInsideCodeBlock ==
  pc = "done" =>
    \A j \in AdSites(html) :
      Occurrences(Before(html, j), "<pre><code>")
        = Occurrences(Before(html, j), "</code></pre>")

\* C20: the scan loop terminates on every document, and every iteration,
\* the one that closes a table included, advances the line index by exactly
\* one, so the loop ends with the index at the number of lines.
C20_LoopTerminates ==
  /\ [][AtLine => i' = i + 1]_vars
  /\ [](pc = "done" => i = Len(lines))
  /\ <>(pc = "done")

\* C20 witness: a three-line document whose table was closed by its last line
\* is done, with the index at 3
C20_Witness ==
  /\ pc = "done" /\ i = 3 /\ Len(lines) = 3
  /\ IsTableRow(lines[2]) /\ ~IsTableRow(lines[3])
  /\ \E k \in 1..Len(result_lines) : result_lines[k] = "</table>"

(***************************************************************************)
(* Properties of successive conversions                                    *)
(***************************************************************************)

Elements(s, open, close) ==
  {SubSeq(s, j, Find(s, close, j) + Len(close) - 1) :
     j \in {k \in 1..Len(s) : StartsWith(SubSeq(s, k, Len(s)), open)
                                /\ Find(s, close, k) # 0}}

\* C15: the passes run in the order bold, italic, code, link, each on the
\* output of the one before, and no later pass matches inside what an earlier
\* pass inserted: every <strong>, <em> and <code> element is in the final
\* text exactly as its pass produced it.
C15_InsertedElementsIntact ==
  inline_pc = "done" =>
    LET bold == SubBold(inline_text)
        italic == SubItalic(bold)
        code == SubCode(italic)
    IN /\ text = SubLink(code)
       /\ \A e \in Elements(bold, "<strong>", "</strong>") : Contains(text, e)
       /\ \A e \in Elements(italic, "<em>", "</em>") : Contains(text, e)
       /\ \A e \in Elements(code, "<code>", "</code>") : Contains(text, e)

====
